---- MODULE Spec2Model ----
(***************************************************************************)
(* Model of static/app.js, the chat controller of the Web Helpdesk page.   *)
(*                                                                         *)
(* All handlers run on the one UI thread, so every handler (and every      *)
(* continuation after an await) is one atomic action.  Strings are         *)
(* sequences of one-character strings, so that trim() is computed.         *)
(*                                                                         *)
(* A step in which a handler changes nothing is a stuttering step.         *)
(*                                                                         *)
(* A message carries, next to the text and class the code gives it, the    *)
(* number of the handleSend invocation that rendered it ("inv"); calls[i]  *)
(* carries, next to the closure variable q and the place the invocation    *)
(* has reached, the checkbox as it was when the invocation started (kept   *)
(* while the request is pending) and the invocations then pending.  These  *)
(* are history fields: no guard and no assignment of the code reads them.  *)
(***************************************************************************)
EXTENDS Naturals, Sequences, FiniteSets

\* ---------------------------------------------------------------- bounds
MaxLen == 2

MaxSends == 2

\* ---------------------------------------------------------------- strings
Chars == {" ", "a"}

Strings == UNION {[1..k -> Chars] : k \in 0..MaxLen}

IsSpace(c) == c = " "

RECURSIVE TrimStart(_)
TrimStart(s) ==
  IF s = <<>> THEN <<>>
  ELSE IF IsSpace(Head(s)) THEN TrimStart(Tail(s)) ELSE s

RECURSIVE TrimEnd(_)
TrimEnd(s) ==
  IF s = <<>> THEN <<>>
  ELSE IF IsSpace(s[Len(s)]) THEN TrimEnd(SubSeq(s, 1, Len(s) - 1)) ELSE s

\* String.prototype.trimStart in place of trim
TrimLeadingOnly(s) == TrimStart(s)

\* String.prototype.trim
Trim(s) == TrimEnd(TrimStart(s))

\* "Sorry, I couldn't understand."
Fallback ==
  << "S", "o", "r", "r", "y", ",", " ", "I", " ", "c", "o", "u", "l", "d",
     "n", "'", "t", " ", "u", "n", "d", "e", "r", "s", "t", "a", "n", "d", "." >>

\* ---------------------------------------------------------------- JSON
\* The value of data.answer in a parsed response object.
Undefined == [t |-> "undefined", s |-> <<>>]

Null == [t |-> "null", s |-> <<>>]

Str(s) == [t |-> "string", s |-> s]

AnswerStrings == {<<>>, <<"o", "k">>}

AnswerValues == {Undefined, Null} \cup {Str(s) : s \in AnswerStrings}

\* JavaScript truthiness of such a value
Truthy(v) == v.t = "string" /\ v.s # <<>>

\* data.answer ?? "Sorry..." in place of ||: the empty string is kept
AnswerOrFallbackNullish(v) == IF v.t = "string" THEN v.s ELSE Fallback

\* data.answer || "Sorry, I couldn't understand."
AnswerOrFallback(v) == IF Truthy(v) THEN v.s ELSE Fallback

\* ---------------------------------------------------------------- state
VARIABLES
  messages,      \* children of #messages, in document order
  promptInput,   \* promptInput.value
  speakChk,      \* speakChk.checked
  synthSupported,\* "speechSynthesis" in window
  srSupported,   \* "webkitSpeechRecognition" in window || "SpeechRecognition" in window
  micDisabled,   \* micBtn.disabled
  micRec,        \* micBtn.classList.contains("rec")
  recognition,   \* recognition: "null" without a constructor, else the session
                 \* of the engine: "idle", "listening", "stopping" (stop() was
                 \* called), "closing" (the result or the error was delivered,
                 \* end is to come)
  calls,         \* the handleSend invocations that went past line 27
  requests,      \* the bodies of the POST /ask requests issued, in order
  synthLog,      \* the calls made to window.speechSynthesis, in order
  speechQueue    \* the utterances speechSynthesis is playing or has queued

vars == << messages, promptInput, speakChk, synthSupported, srSupported,
           micDisabled, micRec, recognition, calls, requests, synthLog, speechQueue >>

chatVars == << messages, promptInput, calls, requests >>

speechVars == << synthLog, speechQueue >>

micVars == << micRec, recognition >>

envVars == << synthSupported, srSupported, micDisabled >>

Pending(c) == c.stage \in {"fetch", "json"}

PendingIds == {i \in 1..Len(calls) : Pending(calls[i])}

\* ---------------------------------------------------------------- addMsg
\* messages.replaceChildren(div) in place of appendChild
addMsgReplace(msgs, text, who, inv) ==
  << [text |-> text, who |-> who, inv |-> inv] >>

\* messages.prepend(div) in place of appendChild
addMsgFirst(msgs, text, who, inv) ==
  << [text |-> text, who |-> who, inv |-> inv] >> \o msgs

addMsg(msgs, text, who, inv) ==
  Append(msgs, [text |-> text, who |-> who, inv |-> inv])

\* ---------------------------------------------------------------- startup
Init ==
  /\ messages = <<>>
  /\ promptInput = <<>>
  /\ speakChk \in BOOLEAN
  /\ synthSupported \in BOOLEAN
  /\ srSupported \in BOOLEAN
  /\ micDisabled = ~srSupported
  /\ micRec = FALSE
  /\ recognition = IF srSupported THEN "idle" ELSE "null"
  /\ calls = <<>>
  /\ requests = <<>>
  /\ synthLog = <<>>
  /\ speechQueue = <<>>

\* ---------------------------------------------------------------- user edits
\* The user edits the text field.
Type(s) ==
  /\ promptInput' = s
  /\ UNCHANGED << messages, calls, requests, speakChk, speechVars, micVars, envVars >>

\* The user flips the speech-output checkbox.
ToggleSpeak ==
  /\ speakChk' = ~speakChk
  /\ UNCHANGED << chatVars, speechVars, micVars, envVars >>

\* ---------------------------------------------------------------- handleSend
\* never returns early
NeverEmpty(q) == FALSE

\* !q
IsEmptyQuestion(q) == q = <<>>

\* without line 29: the field keeps what was sent
handleSendKeepsField(v) ==
  LET q == Trim(v)
      id == Len(calls) + 1
  IN IF IsEmptyQuestion(q)
     THEN /\ promptInput' = v
          /\ UNCHANGED << messages, calls, requests >>
     ELSE /\ Len(calls) < MaxSends
          /\ messages' = addMsg(messages, q, "user", id)
          /\ promptInput' = v
          /\ requests' = Append(requests, q)
          /\ calls' = Append(calls, [q |-> q, stage |-> "fetch",
                                     spk |-> speakChk, over |-> PendingIds])

\* handleSend up to its await, run on the field's content v
handleSend(v) ==
  LET q == Trim(v)
      id == Len(calls) + 1
  IN IF IsEmptyQuestion(q)
     THEN /\ promptInput' = v
          /\ UNCHANGED << messages, calls, requests >>
     ELSE /\ Len(calls) < MaxSends
          /\ messages' = addMsg(messages, q, "user", id)
          /\ promptInput' = <<>>
          /\ requests' = Append(requests, q)
          /\ calls' = Append(calls, [q |-> q, stage |-> "fetch",
                                     spk |-> speakChk, over |-> PendingIds])

ClickSend ==
  /\ handleSend(promptInput)
  /\ UNCHANGED << speakChk, speechVars, micVars, envVars >>

KeydownEnter ==
  /\ handleSend(promptInput)
  /\ UNCHANGED << speakChk, speechVars, micVars, envVars >>

\* ---------------------------------------------------------------- askServer
\* fetch("/ask", ...) of invocation i resolves with a response; askServer
\* goes on to res.json().
FetchResolve(i) ==
  /\ i \in 1..Len(calls)
  /\ calls[i].stage = "fetch"
  /\ calls' = [calls EXCEPT ![i].stage = "json"]
  /\ UNCHANGED << messages, promptInput, requests, speakChk, speechVars, micVars, envVars >>

\* a catch around the await renders the fallback as the answer
FetchRejectShowsError(i) ==
  /\ i \in 1..Len(calls)
  /\ calls[i].stage = "fetch"
  /\ calls' = [calls EXCEPT ![i].stage = "failed", ![i].spk = FALSE]
  /\ messages' = addMsg(messages, Fallback, "bot", i)
  /\ UNCHANGED << promptInput, requests, speakChk, speechVars, micVars, envVars >>

\* fetch of invocation i rejects (network failure): askServer and handleSend
\* reject in turn, nothing catches it.
FetchReject(i) ==
  /\ i \in 1..Len(calls)
  /\ calls[i].stage = "fetch"
  /\ calls' = [calls EXCEPT ![i].stage = "failed", ![i].spk = FALSE]
  /\ UNCHANGED << messages, promptInput, requests, speakChk, speechVars, micVars, envVars >>

\* a body that does not parse makes askServer issue the request again
JsonRejectRetries(i) ==
  /\ i \in 1..Len(calls)
  /\ calls[i].stage = "json"
  /\ calls' = [calls EXCEPT ![i].stage = "fetch"]
  /\ requests' = Append(requests, calls[i].q)
  /\ UNCHANGED << messages, promptInput, speakChk, speechVars, micVars, envVars >>

\* res.json() of invocation i rejects (the body is not JSON), or data is not
\* an object and data.answer throws.
JsonReject(i) ==
  /\ i \in 1..Len(calls)
  /\ calls[i].stage = "json"
  /\ calls' = [calls EXCEPT ![i].stage = "failed", ![i].spk = FALSE]
  /\ UNCHANGED << messages, promptInput, requests, speakChk, speechVars, micVars, envVars >>

\* speaks whenever synthesis exists, whatever the checkbox says
SpeakIfSupported(chk, supported) == supported

\* speakChk.checked && "speechSynthesis" in window
ShouldSpeak(chk, supported) == chk /\ supported

SynthCall(op, text, inv) == [op |-> op, text |-> text, inv |-> inv]

\* without line 35: what is playing plays on
SynthCancelNoop(queue) == queue

\* window.speechSynthesis.cancel(): every utterance is removed from the queue,
\* the one being spoken included
SynthCancel(queue) == <<>>

\* window.speechSynthesis.speak(u): the utterance joins the end of the queue
SynthSpeak(queue, text) == Append(queue, text)

\* answers are rendered in the order of the questions: an invocation waits
\* for the ones before it
JsonResolveInOrder(i, v) ==
  LET ans == AnswerOrFallback(v) IN
  /\ i \in 1..Len(calls)
  /\ calls[i].stage = "json"
  /\ \A j \in 1..(i - 1) : ~Pending(calls[j])
  /\ calls' = [calls EXCEPT ![i].stage = "done", ![i].spk = FALSE]
  /\ messages' = addMsg(messages, ans, "bot", i)
  /\ IF ShouldSpeak(speakChk, synthSupported)
     THEN /\ synthLog' = synthLog \o << SynthCall("cancel", <<>>, i),
                                       SynthCall("speak", ans, i) >>
          /\ speechQueue' = SynthSpeak(SynthCancel(speechQueue), ans)
     ELSE UNCHANGED speechVars
  /\ UNCHANGED << promptInput, requests, speakChk, micVars, envVars >>

\* res.json() of invocation i resolves with an object whose answer is v:
\* askServer returns, and handleSend runs from line 31 to its end.
JsonResolve(i, v) ==
  LET ans == AnswerOrFallback(v) IN
  /\ i \in 1..Len(calls)
  /\ calls[i].stage = "json"
  /\ calls' = [calls EXCEPT ![i].stage = "done", ![i].spk = FALSE]
  /\ messages' = addMsg(messages, ans, "bot", i)
  /\ IF ShouldSpeak(speakChk, synthSupported)
     THEN /\ synthLog' = synthLog \o << SynthCall("cancel", <<>>, i),
                                       SynthCall("speak", ans, i) >>
          /\ speechQueue' = SynthSpeak(SynthCancel(speechQueue), ans)
     ELSE UNCHANGED speechVars
  /\ UNCHANGED << promptInput, requests, speakChk, micVars, envVars >>

\* The utterance being played comes to its end.
UtteranceEnd ==
  /\ speechQueue # <<>>
  /\ speechQueue' = Tail(speechQueue)
  /\ UNCHANGED << chatVars, speakChk, synthLog, micVars, envVars >>

\* ---------------------------------------------------------------- voice input
\* the listeners are added outside the feature test
ListenersAlways(supported) == TRUE

\* the listeners of lines 54-71 exist only in the branch of line 47
MicListeners(supported) == supported

\* A session has started and has not ended.
Active == recognition \in {"listening", "stopping", "closing"}

\* recognition.start(): starts a session, or throws InvalidStateError when
\* one is already started (TypeError when recognition is null)
RecognitionStart(e) == IF e = "idle" THEN "listening" ELSE e

\* recognition.stop(): the engine stops listening; the session goes on until
\* the engine fires end
RecognitionStop(e) == IF e = "listening" THEN "stopping" ELSE e

MicMouseDown ==
  /\ IF MicListeners(srSupported)
     THEN /\ micRec' = TRUE
          /\ recognition' = RecognitionStart(recognition)
     ELSE UNCHANGED micVars
  /\ UNCHANGED << chatVars, speakChk, speechVars, envVars >>

MicMouseUp ==
  /\ IF MicListeners(srSupported)
     THEN /\ recognition' = RecognitionStop(recognition)
          /\ UNCHANGED micRec
     ELSE UNCHANGED micVars
  /\ UNCHANGED << chatVars, speakChk, speechVars, envVars >>

\* sets the field and stops there
RecOnResultNoSend(t) ==
  /\ recognition \in {"listening", "stopping"}
  /\ recognition' = "closing"
  /\ promptInput' = t
  /\ UNCHANGED << messages, calls, requests, micRec, speakChk, speechVars, envVars >>

\* recognition.onresult with e.results[0][0].transcript = t: the one final
\* result of a non-continuous session, after which the engine ends it
RecOnResult(t) ==
  /\ recognition \in {"listening", "stopping"}
  /\ recognition' = "closing"
  /\ handleSend(t)
  /\ UNCHANGED << micRec, speakChk, speechVars, envVars >>

\* recognition.onerror; the engine fires end after it
RecOnError ==
  /\ recognition \in {"listening", "stopping"}
  /\ recognition' = "closing"
  /\ micRec' = FALSE
  /\ UNCHANGED << chatVars, speakChk, speechVars, envVars >>

\* leaves the class on the button
RecOnEndKeepsRec ==
  /\ Active
  /\ recognition' = "idle"
  /\ UNCHANGED << micRec, chatVars, speakChk, speechVars, envVars >>

\* recognition.onend
RecOnEnd ==
  /\ Active
  /\ recognition' = "idle"
  /\ micRec' = FALSE
  /\ UNCHANGED << chatVars, speakChk, speechVars, envVars >>

\* ---------------------------------------------------------------- behaviours
Next ==
  \/ \E s \in Strings : Type(s)
  \/ ToggleSpeak
  \/ ClickSend
  \/ KeydownEnter
  \/ \E i \in 1..MaxSends : FetchResolve(i)
  \/ \E i \in 1..MaxSends : FetchReject(i)
  \/ \E i \in 1..MaxSends : JsonReject(i)
  \/ \E i \in 1..MaxSends, v \in AnswerValues : JsonResolve(i, v)
  \/ UtteranceEnd
  \/ MicMouseDown
  \/ MicMouseUp
  \/ \E t \in Strings : RecOnResult(t)
  \/ RecOnError
  \/ RecOnEnd

Spec == Init /\ [][Next]_vars

\* A request that is pending is settled, one way or the other.
Settle ==
  \E i \in 1..MaxSends :
    \/ FetchResolve(i)
    \/ FetchReject(i)
    \/ JsonReject(i)
    \/ \E v \in AnswerValues : JsonResolve(i, v)

\* The browser settles every request and ends every recognition session.
FairSpec == Spec /\ WF_vars(Settle) /\ WF_vars(RecOnEnd)

\* ---------------------------------------------------------------- vocabulary
Calls == 1..Len(calls)

UserMsgs(i) ==
  {k \in 1..Len(messages) : messages[k].inv = i /\ messages[k].who = "user"}

BotMsgs(i) ==
  {k \in 1..Len(messages) : messages[k].inv = i /\ messages[k].who = "bot"}

SpeakCalls(i) ==
  {k \in 1..Len(synthLog) : synthLog[k].inv = i /\ synthLog[k].op = "speak"}

Spaces(n) == [k \in 1..n |-> " "]

Blank(raw) == \A k \in 1..Len(raw) : raw[k] = " "

\* q is raw without the white space at its two ends
IsTrimOf(q, raw) ==
  /\ q = <<>> \/ (q[1] # " " /\ q[Len(q)] # " ")
  /\ \E a, b \in 0..Len(raw) : raw = Spaces(a) \o q \o Spaces(b)

\* This step ran handleSend, which read v from the field
SendStep(v) ==
  \/ v = promptInput /\ (ClickSend \/ KeydownEnter)
  \/ RecOnResult(v)

\* This step rendered the answer of invocation i, the response carrying v
AnswerStep(i, v) == JsonResolve(i, v)

Last(seq) == seq[Len(seq)]

\* ---------------------------------------------------------------- C1
C1Inv ==
  \A i \in Calls :
    /\ Cardinality(UserMsgs(i)) = 1
    /\ calls[i].stage = "done" =>
         /\ Cardinality(BotMsgs(i)) = 1
         /\ \A u \in UserMsgs(i), b \in BotMsgs(i) : u < b
    /\ calls[i].stage # "done" => BotMsgs(i) = {}

C1Send ==
  \A v \in Strings :
    (SendStep(v) /\ ~Blank(v)) =>
      /\ Len(calls') = Len(calls) + 1
      /\ Len(messages') = Len(messages) + 1
      /\ SubSeq(messages', 1, Len(messages)) = messages
      /\ Last(messages').who = "user"
      /\ Last(messages').inv = Len(calls')
      /\ Pending(Last(calls'))

C1Settles ==
  \A i \in 1..MaxSends :
    (i \in Calls /\ Pending(calls[i])) ~>
      (i \in Calls /\ \/ calls[i].stage = "failed"
                      \/ calls[i].stage = "done" /\ Cardinality(BotMsgs(i)) = 1)

\* C1: every handleSend on a field that is not blank appends exactly one user
\* message in that step, and its request is settled in the end; once it has
\* completed, exactly one bot message of that invocation stands in the
\* transcript, after the user message, and none does before.
C1_OneUserThenOneBot == []C1Inv /\ [][C1Send]_vars /\ C1Settles

C1_Witness ==
  \E i \in Calls :
    /\ calls[i].stage = "done"
    /\ Cardinality(UserMsgs(i)) = 1
    /\ Cardinality(BotMsgs(i)) = 1

\* ---------------------------------------------------------------- C2
\* C2: handleSend on a field that is empty or all white space (from the
\* click, the Enter key or a recognition result) leaves the transcript, the
\* invocations, the requests, the synthesis calls and the field as they were.
C2_BlankSendIsNoOp ==
  [][\A v \in Strings :
       (SendStep(v) /\ Blank(v)) =>
         /\ messages' = messages
         /\ calls' = calls
         /\ requests' = requests
         /\ synthLog' = synthLog
         /\ speechQueue' = speechQueue
         /\ promptInput' = v]_vars

\* white space in the field after a recognition result delivered it: the
\* session is closing and nothing was sent
C2_Witness ==
  /\ promptInput = << " " >>
  /\ recognition = "closing"
  /\ micRec
  /\ messages = <<>>
  /\ requests = <<>>

\* ---------------------------------------------------------------- C3
\* C3: two sends of which the second started while the first was pending,
\* both completed, each have one user and one bot message of their own; when
\* they are the only sends the transcript has four messages, two of each.
C3_OverlappingSends ==
  \A i, j \in Calls :
    (i < j /\ i \in calls[j].over /\ calls[i].stage = "done" /\ calls[j].stage = "done") =>
      /\ Cardinality(UserMsgs(i)) = 1 /\ Cardinality(BotMsgs(i)) = 1
      /\ Cardinality(UserMsgs(j)) = 1 /\ Cardinality(BotMsgs(j)) = 1
      /\ Len(calls) = 2 =>
           /\ Len(messages) = 4
           /\ Cardinality({k \in 1..4 : messages[k].who = "user"}) = 2
           /\ Cardinality({k \in 1..4 : messages[k].who = "bot"}) = 2

\* the second response lands first
C3_Witness ==
  /\ Len(calls) = 2
  /\ 1 \in calls[2].over
  /\ calls[1].stage = "done" /\ calls[2].stage = "done"
  /\ Len(messages) = 4
  /\ messages[3].inv = 2 /\ messages[4].inv = 1

\* ---------------------------------------------------------------- C4
\* the two synthesis calls of lines 35-36 for invocation i
Spoken(i) ==
  synthLog' = synthLog \o << SynthCall("cancel", <<>>, i),
                            SynthCall("speak", Last(messages').text, i) >>

C4AtMostOnce ==
  \A i \in Calls :
    /\ Cardinality(SpeakCalls(i)) <= 1
    /\ calls[i].stage # "done" => SpeakCalls(i) = {}

\* C4 as claimed: the checkbox as it was when the question was sent decides
\* whether its answer is spoken.
C4_AsClaimed ==
  [][\A i \in Calls, v \in AnswerValues :
       AnswerStep(i, v) =>
         /\ ~calls[i].spk => synthLog' = synthLog
         /\ (calls[i].spk /\ synthSupported) => Spoken(i)]_vars

\* C4, amended: the checkbox as it is when the answer is rendered decides: off
\* (or no synthesis in the browser), no synthesis call is made for the
\* question; on and supported, exactly one, with the text of the bot message
\* just rendered, after one cancel.
C4_CheckboxAtRender ==
  /\ []C4AtMostOnce
  /\ [][\A i \in Calls, v \in AnswerValues :
          AnswerStep(i, v) =>
            /\ Len(messages') = Len(messages) + 1
            /\ IF speakChk /\ synthSupported THEN Spoken(i)
               ELSE synthLog' = synthLog]_vars

\* one send, answered, and the answer spoken
C4_Witness ==
  /\ Len(calls) = 1
  /\ calls[1].stage = "done"
  /\ Len(synthLog) = 2
  /\ Last(synthLog).op = "speak"
  /\ Last(synthLog).inv = 1
  /\ Last(synthLog).text = Last(messages).text
  /\ Last(messages).who = "bot"

\* ---------------------------------------------------------------- C5
\* Invocation i, about to be answered, never had another one pending with it.
NotOverlapped(i) == calls[i].over = {} /\ i = Len(calls)

\* C5: a send renders the trimmed content of the field as a user message at
\* the end of the transcript; when the service answers a send that nothing
\* overlapped with a non-empty string, that string is rendered as a bot
\* message right after the user message, the transcript before them untouched.
C5_QuestionThenAnswer ==
  [][/\ \A v \in Strings :
          (SendStep(v) /\ ~Blank(v)) =>
             /\ Len(messages') = Len(messages) + 1
             /\ messages' = Append(messages, Last(messages'))
             /\ Last(messages').who = "user"
             /\ IsTrimOf(Last(messages').text, v)
     /\ \A i \in Calls, a \in AnswerStrings \ {<<>>} :
          (AnswerStep(i, Str(a)) /\ NotOverlapped(i)) =>
             /\ Last(messages) = [text |-> calls[i].q, who |-> "user", inv |-> i]
             /\ messages' = Append(messages, [text |-> a, who |-> "bot", inv |-> i])]_vars

\* a second exchange, after the first was over: "a" answered "ok"
C5_Witness ==
  /\ Len(messages) = 4
  /\ Len(calls) = 2
  /\ calls[2].over = {}
  /\ calls[2].stage = "done"
  /\ messages[3] = [text |-> << "a" >>, who |-> "user", inv |-> 2]
  /\ messages[4] = [text |-> << "o", "k" >>, who |-> "bot", inv |-> 2]

\* ---------------------------------------------------------------- C6
Falsy(v) == v.t # "string" \/ v.s = <<>>

\* C6: when the parsed response has no answer or a falsy one, the bot message
\* rendered, and the text spoken if any is, is the fixed fallback string; no
\* bot message ever has an empty text.
C6_FallbackAnswer ==
  /\ [](\A k \in 1..Len(messages) : messages[k].who = "bot" => messages[k].text # <<>>)
  /\ [][\A i \in Calls, v \in AnswerValues :
          (AnswerStep(i, v) /\ Falsy(v)) =>
             /\ messages' = Append(messages, [text |-> Fallback, who |-> "bot", inv |-> i])
             /\ synthLog' # synthLog =>
                  /\ Len(synthLog') = Len(synthLog) + 2
                  /\ Last(synthLog') = SynthCall("speak", Fallback, i)]_vars

\* the fallback rendered and spoken
C6_Witness ==
  /\ messages # <<>>
  /\ Last(messages).text = Fallback
  /\ Last(messages).who = "bot"
  /\ synthLog # <<>>
  /\ Last(synthLog) = SynthCall("speak", Fallback, Last(messages).inv)

\* ---------------------------------------------------------------- C7
\* C7: without a recognition constructor at startup, the microphone button
\* stays disabled, no session of a recognition engine is ever started, and no
\* press or release on the button changes anything: not the indicator, not
\* the field, not the transcript.
C7_NoVoiceNoEffect ==
  /\ [](~srSupported => micDisabled /\ ~micRec /\ recognition = "null")
  /\ [][(~srSupported /\ (MicMouseDown \/ MicMouseUp)) => UNCHANGED vars]_vars

\* a page without voice capture, with text in the field and in the transcript
C7_Witness ==
  /\ ~srSupported
  /\ micDisabled
  /\ promptInput # <<>>
  /\ messages # <<>>

\* ---------------------------------------------------------------- C8
\* a press on the microphone button that calls recognition.start()
StartCall == MicMouseDown /\ MicListeners(srSupported)

\* C8 as claimed: while a session that was started has not ended, no press
\* calls recognition.start().
C8_StartOnlyWhenIdle == Active => ~ENABLED StartCall

\* ---------------------------------------------------------------- C9
C9Cleared == (RecOnError \/ RecOnEnd) => ~micRec'

C9Ends == Active ~> (recognition = "idle" /\ ~micRec)

\* C9: a session that was started ends, and the indicator is clear when it
\* has; the indicator is set only while a session is active, and it is clear
\* right after onerror and right after onend.
C9_SessionEndsIndicatorClear ==
  /\ [](micRec => Active)
  /\ [][C9Cleared]_vars
  /\ C9Ends

\* the button was released and the session is about to end
C9_Witness ==
  /\ recognition = "stopping"
  /\ micRec
  /\ ENABLED RecOnEnd

\* ---------------------------------------------------------------- C10
\* C10: onresult with transcript t writes t into the field and runs
\* handleSend in the same step: when t is not blank the trimmed t is appended
\* as a user message, one request carrying it is issued and the field is
\* empty afterwards; when t is blank the field holds t.
C10_ResultSends ==
  [][\A t \in Strings :
       RecOnResult(t) =>
         IF Blank(t)
         THEN promptInput' = t /\ messages' = messages /\ requests' = requests
         ELSE /\ Len(messages') = Len(messages) + 1
              /\ messages' = Append(messages, Last(messages'))
              /\ Last(messages').who = "user"
              /\ IsTrimOf(Last(messages').text, t)
              /\ requests' = Append(requests, Last(messages').text)
              /\ Len(calls') = Len(calls) + 1
              /\ Last(calls').stage = "fetch"
              /\ promptInput' = <<>>]_vars

\* the result of a session has been sent: the engine is closing, the
\* indicator still set, the question in the transcript, its request pending
C10_Witness ==
  /\ recognition = "closing"
  /\ micRec
  /\ messages # <<>>
  /\ Last(messages) = [text |-> << "a" >>, who |-> "user", inv |-> Len(calls)]
  /\ Last(requests) = << "a" >>
  /\ Last(calls).stage = "fetch"
  /\ promptInput = <<>>

\* ---------------------------------------------------------------- C11
\* C11: in every step the transcript is the old one, or the old one with one
\* message added at its end; no message already in it is removed, moved or
\* changed.
C11_AppendOnly ==
  [][\/ messages' = messages
     \/ /\ Len(messages') = Len(messages) + 1
        /\ SubSeq(messages', 1, Len(messages)) = messages]_vars

\* a transcript of three messages, grown over a question, its answer and a
\* second question
C11_Witness ==
  /\ Len(messages) = 3
  /\ messages[1].who = "user"
  /\ messages[2].who = "bot"
  /\ messages[3].who = "user"

\* ---------------------------------------------------------------- C12
\* the text rendered for a response whose answer is v
Rendered(v) == IF Falsy(v) THEN Fallback ELSE v.s

C12NoOrdering ==
  \A i \in Calls :
    calls[i].stage = "json" => ENABLED (\E v \in AnswerValues : JsonResolve(i, v))

C12Steps ==
  /\ \A v \in Strings :
       (SendStep(v) /\ ~Blank(v)) => PendingIds' = PendingIds \cup {Len(calls')}
  /\ \A i \in Calls, v \in AnswerValues :
       AnswerStep(i, v) =>
         messages' = Append(messages, [text |-> Rendered(v), who |-> "bot", inv |-> i])

\* C12: a send made while a request is pending leaves that request pending
\* next to its own; a response that has arrived can complete whatever else is
\* pending, and its bot message goes to the end of the transcript at that
\* step, so bot messages stand in the order the responses completed.
C12_CompletionOrder == []C12NoOrdering /\ [][C12Steps]_vars

\* (q1,user),(q2,user),(a2,bot),(a1,bot): "a" and "aa" asked one on the other,
\* "aa" answered "ok" before "a" was answered with no answer field
C12_Witness ==
  /\ Len(calls) = 2
  /\ 1 \in calls[2].over
  /\ messages = << [text |-> << "a" >>, who |-> "user", inv |-> 1],
                   [text |-> << "a", "a" >>, who |-> "user", inv |-> 2],
                   [text |-> << "o", "k" >>, who |-> "bot", inv |-> 2],
                   [text |-> Fallback, who |-> "bot", inv |-> 1] >>

\* ---------------------------------------------------------------- C13
\* the calls made to speechSynthesis by invocation i
SynthCalls(i) == {k \in 1..Len(synthLog) : synthLog[k].inv = i}

Failed(i) == i \in Calls /\ calls[i].stage = "failed"

\* This step is the failure of the request of invocation i
FailStep(i) == FetchReject(i) \/ JsonReject(i)

C13Inv ==
  \A i \in Calls :
    Failed(i) =>
      /\ BotMsgs(i) = {}
      /\ SynthCalls(i) = {}
      /\ \E k \in 1..Len(messages) :
           messages[k] = [text |-> calls[i].q, who |-> "user", inv |-> i]

C13Steps ==
  /\ \A i \in Calls :
       FailStep(i) =>
         /\ Failed(i)'
         /\ messages' = messages
         /\ promptInput' = promptInput
         /\ requests' = requests
         /\ synthLog' = synthLog
         /\ speechQueue' = speechQueue
  /\ \A v \in Strings :
       ((\E i \in Calls : Failed(i)) /\ SendStep(v) /\ ~Blank(v)) =>
         /\ Len(messages') = Len(messages) + 1
         /\ messages' = Append(messages, Last(messages'))
         /\ Last(messages').who = "user"
         /\ IsTrimOf(Last(messages').text, v)
         /\ requests' = Append(requests, Last(messages').text)
         /\ promptInput' = <<>>
  /\ \A j \in Calls, v \in AnswerValues :
       ((\E i \in Calls : Failed(i)) /\ AnswerStep(j, v)) =>
         messages' = Append(messages, [text |-> Rendered(v), who |-> "bot", inv |-> j])

\* C13: the failure of a request (fetch rejects, or the body does not parse)
\* changes neither the transcript, nor the field, nor the synthesis calls; the
\* failed invocation has its user message in the transcript, no bot message
\* and no synthesis call, ever; sends made and answers received after a
\* failure are rendered as they are without one.
C13_FailureLeavesQuestion == []C13Inv /\ [][C13Steps]_vars

\* the first request failed; a second question, sent after that, was answered
C13_Witness ==
  /\ Len(calls) = 2
  /\ calls[1].stage = "failed"
  /\ calls[2].stage = "done"
  /\ calls[2].over = {}
  /\ Len(messages) = 3
  /\ messages[1].inv = 1 /\ messages[1].who = "user"
  /\ messages[2].inv = 2 /\ messages[2].who = "user"
  /\ messages[3].inv = 2 /\ messages[3].who = "bot"
  /\ promptInput = <<>>

\* ---------------------------------------------------------------- C14
C14Inv ==
  \A i \in Calls :
    Pending(calls[i]) =>
      /\ \E k \in 1..Len(messages) :
           messages[k] = [text |-> calls[i].q, who |-> "user", inv |-> i]
      /\ requests[i] = calls[i].q

\* What is sent is never blank, so a field that is blank does not hold it; a
\* field that is not blank was left so by the user's typing.
C14Steps ==
  /\ \A v \in Strings :
       (SendStep(v) /\ ~Blank(v)) =>
         /\ Len(calls') = Len(calls) + 1
         /\ Len(requests') = Len(requests) + 1
         /\ Len(messages') = Len(messages) + 1
         /\ Pending(Last(calls'))
         /\ Last(requests') = Last(calls').q
         /\ Last(messages') = [text |-> Last(calls').q, who |-> "user", inv |-> Len(calls')]
         /\ promptInput' = <<>>
  /\ \/ \E s \in Strings : Type(s)
     \/ promptInput' = promptInput
     \/ Blank(promptInput')

\* C14: the step that issues the request of a send also renders the user
\* message and empties the field; while the request is pending the user
\* message is in the transcript, and the field holds no text that is not
\* blank unless the user typed it in afterwards.
C14_ClearedBeforeResponse == []C14Inv /\ [][C14Steps]_vars

\* the response is on its way back: the question in the transcript, the
\* field empty, no answer yet
C14_Witness ==
  /\ Len(calls) = 1
  /\ calls[1].stage = "json"
  /\ messages = << [text |-> calls[1].q, who |-> "user", inv |-> 1] >>
  /\ requests = << calls[1].q >>
  /\ promptInput = <<>>

\* ---------------------------------------------------------------- C15
Odd(k) == k % 2 = 1

C15Inv ==
  /\ Len(speechQueue) <= 1
  /\ Len(synthLog) % 2 = 0
  /\ \A k \in 1..Len(synthLog) :
       IF Odd(k)
       THEN /\ synthLog[k].op = "cancel"
            /\ synthLog[k + 1].op = "speak"
            /\ synthLog[k + 1].inv = synthLog[k].inv
       ELSE /\ synthLog[k].op = "speak"
            /\ \E b \in BotMsgs(synthLog[k].inv) : messages[b].text = synthLog[k].text
  /\ speechQueue # <<>> =>
       /\ synthLog # <<>>
       /\ speechQueue = << Last(synthLog).text >>

C15Steps ==
  \A i \in Calls, v \in AnswerValues :
    (AnswerStep(i, v) /\ speakChk /\ synthSupported) =>
      /\ synthLog' = synthLog \o << SynthCall("cancel", <<>>, i),
                                   SynthCall("speak", Rendered(v), i) >>
      /\ speechQueue' = << Rendered(v) >>

\* C15: the calls to speechSynthesis come in pairs, a cancel and then the
\* speak of a rendered answer; at most one utterance is playing or queued,
\* and it is the one spoken last; an answer spoken while another is playing
\* takes its place.
C15_CancelThenSpeak == []C15Inv /\ [][C15Steps]_vars

\* two overlapped sends, the second answered and spoken first; the answer of
\* the first, which landed later, is the one utterance in the queue
C15_Witness ==
  /\ Len(calls) = 2
  /\ 1 \in calls[2].over
  /\ Len(synthLog) = 4
  /\ synthLog[2] = SynthCall("speak", << "o", "k" >>, 2)
  /\ synthLog[4] = SynthCall("speak", Fallback, 1)
  /\ speechQueue = << Fallback >>

\* ---------------------------------------------------------------- C16
IsUser(m) == m.who = "user"

IsBot(m) == m.who = "bot"

\* the user messages of the transcript, in order
Users == SelectSeq(messages, IsUser)

C16Inv ==
  /\ Len(requests) = Len(Users)
  /\ Len(requests) = Len(calls)
  /\ \A k \in 1..Len(requests) :
       /\ requests[k] = Users[k].text
       /\ Users[k].inv = k
       /\ requests[k] = calls[k].q

C16Steps ==
  /\ \/ requests' = requests
     \/ /\ \E v \in Strings : SendStep(v) /\ ~Blank(v)
        /\ Len(requests') = Len(requests) + 1
        /\ SubSeq(requests', 1, Len(requests)) = requests
  /\ \A i \in Calls :
       (FetchResolve(i) \/ FailStep(i)) => requests' = requests

\* C16: the requests issued are as many as the user messages, the k-th
\* request carrying the text of the k-th user message; a request is issued
\* only by the step that renders its user message, and none when a request
\* fails or a response arrives.
C16_OneRequestPerQuestion == []C16Inv /\ [][C16Steps]_vars

\* two questions with different texts, one request each, the first of them
\* failed and the second still out
C16_Witness ==
  /\ Len(requests) = 2
  /\ requests[1] # requests[2]
  /\ Len(Users) = 2
  /\ calls[1].stage = "failed"
  /\ calls[2].stage = "fetch"

\* ---------------------------------------------------------------- C17
Prefix(n) == SubSeq(messages, 1, n)

Done == {i \in Calls : calls[i].stage = "done"}

\* C17: every bot message stands after the user message of its own
\* invocation, whose question it answers; every prefix of the transcript has
\* at most as many bot messages as user messages; the bot messages are as
\* many as the invocations completed with a response.
C17_BotAfterItsQuestion ==
  /\ \A b \in 1..Len(messages) :
       messages[b].who = "bot" =>
         \E u \in 1..(b - 1) :
           messages[u] = [text |-> calls[messages[b].inv].q, who |-> "user",
                          inv |-> messages[b].inv]
  /\ \A n \in 0..Len(messages) :
       Len(SelectSeq(Prefix(n), IsBot)) <= Len(SelectSeq(Prefix(n), IsUser))
  /\ Len(SelectSeq(messages, IsBot)) = Cardinality(Done)

\* two questions asked one on the other, the second answered while the first
\* is pending: one bot message, two user messages before it
C17_Witness ==
  /\ Len(messages) = 3
  /\ messages[3].who = "bot"
  /\ messages[3].inv = 2
  /\ Pending(calls[1])
  /\ Done = {2}

====
